---- MODULE Spec2Model ----
(***************************************************************************)
(* Model of main.py: the PDF/Word converter window (PDFConverterApp) and   *)
(* its background conversion thread (ConvertWorker).                       *)
(*                                                                         *)
(* Paths and file names are sequences of one-character strings, so that    *)
(* os.path.basename, os.path.splitext, str.lower, str.endswith and the     *)
(* f-string that builds "name(n).ext" are computed as the code computes    *)
(* them.  Signals emitted by a worker thread are queued in the event loop  *)
(* of the window's thread and handled there in emission order.             *)
(***************************************************************************)
EXTENDS Integers, Sequences, FiniteSets, TLC

VARIABLES file_paths, file_list_widget, output_folder, dirExists,
          pdf_to_word_rb, perpage_rb, format_combo,
          progressValue, progressMaximum, open_btn, show_progress_btn,
          status, total_pages, current_page_progress, workers, queue,
          win32com, op

\* the window's widgets and attributes
window == <<file_paths, file_list_widget, output_folder, pdf_to_word_rb,
            perpage_rb, format_combo, progressValue, progressMaximum,
            open_btn, show_progress_btn, status, total_pages,
            current_page_progress>>

\* everything but op, which records the step taken last and the answer the
\* user gave in its dialog
program == <<window, dirExists, workers, queue, win32com>>

vars == <<program, op>>

(***************************************************************************)
(* Bounds of the model.                                                    *)
(***************************************************************************)
\* number of worker threads that exist at the same time
MaxThreads == 2
\* number of paths handed to add_files_to_list by one dialog or one drop
MaxBatch == 2

(***************************************************************************)
(* The file system the user picks from.                                    *)
(***************************************************************************)
\* x/a.pdf : a regular PDF file with two pages
PdfA == <<"x", "/", "a", ".", "p", "d", "f">>
\* y/a.pdf : a directory whose name ends in .pdf
DirA == <<"y", "/", "a", ".", "p", "d", "f">>
\* x/a(1).pdf : a regular PDF file with one page, named like a suffixed name
PdfA1 == <<"x", "/", "a", "(", "1", ")", ".", "p", "d", "f">>
\* x/b.DOC : a regular Word file
DocB == <<"x", "/", "b", ".", "D", "O", "C">>
\* y/b.DOC : a path that does not exist
GhostB == <<"y", "/", "b", ".", "D", "O", "C">>
AllPaths == {PdfA, DirA, PdfA1, DocB, GhostB}
RegularFiles == {PdfA, PdfA1, DocB}
\* the one folder the user can pick as output folder
OutDir == "out"

\* len(PdfReader(f).pages); -1 stands for PdfReader raising
PageCount(f) == IF f = PdfA THEN 2 ELSE IF f = PdfA1 THEN 1 ELSE -1

(***************************************************************************)
(* String functions used by the code.                                      *)
(***************************************************************************)
Range(s) == {s[i] : i \in 1..Len(s)}

LowerChar(c) == IF c = "D" THEN "d" ELSE IF c = "O" THEN "o"
                ELSE IF c = "C" THEN "c" ELSE c

lower(s) == [i \in 1..Len(s) |-> LowerChar(s[i])]

endswith(s, suffix) ==
    /\ Len(s) >= Len(suffix)
    /\ SubSeq(s, Len(s) - Len(suffix) + 1, Len(s)) = suffix

\* index of the last occurrence of c in s, 0 when there is none
LastIndex(s, c) ==
    LET hits == {i \in 1..Len(s) : s[i] = c}
    IN  IF hits = {} THEN 0 ELSE CHOOSE i \in hits : \A j \in hits : j <= i

basename(path) == SubSeq(path, LastIndex(path, "/") + 1, Len(path))

\* os.path.splitext: split at the last dot, unless the name has only leading dots
splitext(name) ==
    LET dot == LastIndex(name, ".")
        leading == \A i \in 1..dot : name[i] = "."
    IN  IF dot = 0 \/ leading
        THEN <<name, <<>>>>
        ELSE <<SubSeq(name, 1, dot - 1), SubSeq(name, dot, Len(name))>>

DigitChar == <<"0", "1", "2", "3", "4", "5", "6", "7", "8", "9">>

RECURSIVE str(_)
str(n) == IF n < 10 THEN <<DigitChar[n + 1]>>
          ELSE str(n \div 10) \o <<DigitChar[(n % 10) + 1]>>

FmtChars(fmt) == IF fmt = "docx" THEN <<"d", "o", "c", "x">>
                 ELSE IF fmt = "doc" THEN <<"d", "o", "c">>
                 ELSE IF fmt = "pdf" THEN <<"p", "d", "f">>
                 ELSE <<>>

DotPdf == <<".", "p", "d", "f">>
DotDoc == <<".", "d", "o", "c">>
DotDocx == <<".", "d", "o", "c", "x">>

(***************************************************************************)
(* QProgressBar, as the code uses it (minimum is always 0).                *)
(***************************************************************************)
\* QProgressBar.setValue: a value outside [0, maximum] is ignored, unless
\* the range is 0..0
setValue(value, maximum, v) ==
    IF (v > maximum \/ v < 0) /\ maximum # 0 THEN value ELSE v

\* QProgressBar.setMaximum: the value is reset when it falls outside the range
MaximumOf(m) == IF m < 0 THEN 0 ELSE m
ValueAfterSetMaximum(value, m) ==
    IF value > MaximumOf(m) THEN -1 ELSE value

(***************************************************************************)
(* Status label texts.                                                     *)
(***************************************************************************)
\* update_file_count_status
FileCountStatus(paths) ==
    IF Len(paths) = 0 THEN [kind |-> "choose", n |-> 0]
    ELSE [kind |-> "count", n |-> Len(paths)]

(***************************************************************************)
(* add_files_to_list                                                       *)
(***************************************************************************)
Texts(items) == {items[i].text : i \in 1..Len(items)}

\* the while loop that appends (counter) until the display name is unused
RECURSIVE ProbeName(_, _, _, _)
ProbeName(original, existing, counter, display) ==
    IF display \in existing
    THEN LET name_parts == splitext(original)
         IN  ProbeName(original, existing, counter + 1,
                       name_parts[1] \o <<"(">> \o str(counter) \o <<")">>
                           \o name_parts[2])
    ELSE display

DisplayName_Unsuffixed(original, existing) == original

DisplayName(original, existing) == ProbeName(original, existing, 1, original)

ShouldAdd_Always(f, paths) == TRUE

ShouldAdd(f, paths) == f \notin Range(paths)

RECURSIVE AddFiles(_, _, _)
AddFiles(files, paths, items) ==
    IF files = <<>> THEN [paths |-> paths, items |-> items]
    ELSE LET f == Head(files)
         IN  IF ShouldAdd(f, paths)
             THEN AddFiles(Tail(files), Append(paths, f),
                      Append(items,
                             [text |-> DisplayName(basename(f), Texts(items)),
                              data |-> f]))
             ELSE AddFiles(Tail(files), paths, items)

\* batches of paths a dialog or a drop can deliver
Batches(S) == UNION {[1..n -> S] : n \in 1..MaxBatch}

(***************************************************************************)
(* History kept for the properties.                                        *)
(***************************************************************************)
\* a running worker whose file list is changed by the window is marked
MarkModified(ws, changed) ==
    [i \in 1..Len(ws) |->
        IF changed /\ ws[i].running THEN [ws[i] EXCEPT !.modified = TRUE]
        ELSE ws[i]]

\* the step taken last, with the answer given in its dialog; for
\* add_files_to_list, added is the added_count its message reports; for a
\* confirmed remove_selected_files, rows are the rows of selectedItems()
Op(name, reply) ==
    [name |-> name, reply |-> reply, added |-> 0, rows |-> {}]
OpAdd(name, count) ==
    [name |-> name, reply |-> "", added |-> count, rows |-> {}]
OpRemove(reply, rows) ==
    [name |-> "remove_selected_files", reply |-> reply, added |-> 0,
     rows |-> rows]

(***************************************************************************)
(* Window operations on the file list.                                     *)
(***************************************************************************)
\* the suffix test of dropEvent; the name filters of select_files accept
\* the same suffixes
DropAccepts(isPdfToWord, path) ==
    IF isPdfToWord THEN endswith(lower(path), DotPdf)
    ELSE endswith(lower(path), DotDocx) \/ endswith(lower(path), DotDoc)

\* the files among offered that the open-file dialog returns: existing
\* regular files that pass the name filter of the current direction
DialogFiles(offered) ==
    {f \in offered \cap RegularFiles : DropAccepts(pdf_to_word_rb, f)}

add_files_to_list(files, caller) ==
    LET r == AddFiles(files, file_paths, file_list_widget)
    IN  /\ op' = OpAdd(caller, Len(r.paths) - Len(file_paths))
        /\ file_paths' = r.paths
        /\ file_list_widget' = r.items
        /\ status' = FileCountStatus(r.paths)
        /\ workers' = MarkModified(workers, r.paths # file_paths)
        /\ UNCHANGED <<output_folder, dirExists, pdf_to_word_rb, perpage_rb,
                       format_combo, progressValue, progressMaximum, open_btn,
                       show_progress_btn, total_pages, current_page_progress,
                       queue, win32com>>

select_files(offered) ==
    \E files \in Batches(DialogFiles(offered)) :
        add_files_to_list(files, "select_files")

dropEvent(offered) ==
    \E urls \in Batches(offered) :
        LET files_to_add ==
                SelectSeq(urls, LAMBDA p : DropAccepts(pdf_to_word_rb, p))
        IN  IF files_to_add # <<>>
            THEN add_files_to_list(files_to_add, "dropEvent")
            ELSE /\ op' = Op("dropEvent", "")
                 /\ UNCHANGED program

\* list.remove: drops the first occurrence
RECURSIVE RemoveFirst(_, _)
RemoveFirst(paths, p) ==
    IF paths = <<>> THEN <<>>
    ELSE IF Head(paths) = p THEN Tail(paths)
    ELSE <<Head(paths)>> \o RemoveFirst(Tail(paths), p)

RemoveSelected_FromTop(paths, items, rows) ==
    [paths |-> SubSeq(paths, Cardinality(rows) + 1, Len(paths)),
     items |-> SubSeq(items, Cardinality(rows) + 1, Len(items))]

\* the loop of remove_selected_files over the selected rows
RECURSIVE RemoveSelected(_, _, _)
RemoveSelected(paths, items, rows) ==
    IF rows = {} THEN [paths |-> paths, items |-> items]
    ELSE LET row == CHOOSE r \in rows : \A q \in rows : q <= r
             item == items[row]
             kept == IF item.data \in Range(paths)
                     THEN RemoveFirst(paths, item.data) ELSE paths
         IN  RemoveSelected(kept,
                 SubSeq(items, 1, row - 1) \o SubSeq(items, row + 1, Len(items)),
                 rows \ {row})

remove_selected_files ==
    \E rows \in SUBSET (1..Len(file_list_widget)), reply \in {"Yes", "No"} :
        /\ op' = IF rows = {} THEN Op("remove_selected_files", "")
                 ELSE IF reply = "No" THEN Op("remove_selected_files", "No")
                 ELSE OpRemove("Yes", rows)
        /\ IF rows = {} \/ reply = "No"
           THEN UNCHANGED program
           ELSE LET r == RemoveSelected(file_paths, file_list_widget, rows)
                IN  /\ file_paths' = r.paths
                    /\ file_list_widget' = r.items
                    /\ status' = FileCountStatus(r.paths)
                    /\ workers' = MarkModified(workers, r.paths # file_paths)
                    /\ UNCHANGED <<output_folder, dirExists, pdf_to_word_rb,
                                   perpage_rb, format_combo, progressValue,
                                   progressMaximum, open_btn,
                                   show_progress_btn, total_pages,
                                   current_page_progress, queue, win32com>>

ClearAll_KeepsOpenButton ==
    /\ file_paths' = <<>>
    /\ file_list_widget' = <<>>
    /\ progressValue' = setValue(progressValue, progressMaximum, 0)
    /\ open_btn' = open_btn
    /\ show_progress_btn' = FALSE
    /\ status' = FileCountStatus(<<>>)
    /\ workers' = MarkModified(workers, file_paths # <<>>)

\* the part of clear_all_files after the early returns
ClearAll ==
    /\ file_paths' = <<>>
    /\ file_list_widget' = <<>>
    /\ progressValue' = setValue(progressValue, progressMaximum, 0)
    /\ open_btn' = FALSE
    /\ show_progress_btn' = FALSE
    /\ status' = FileCountStatus(<<>>)
    /\ workers' = MarkModified(workers, file_paths # <<>>)

clear_all_files ==
    \E reply \in {"Yes", "No"} :
        /\ op' = Op("clear_all_files", IF file_paths = <<>> THEN "" ELSE reply)
        /\ IF file_paths = <<>> \/ reply = "No"
           THEN UNCHANGED program
           ELSE /\ ClearAll
                /\ UNCHANGED <<output_folder, dirExists, pdf_to_word_rb,
                               perpage_rb, format_combo, progressMaximum,
                               total_pages, current_page_progress, queue,
                               win32com>>

\* the user clicks the other direction radio button; toggled runs
\* update_ui_for_direction, which ends in clear_all_files(show_message=False):
\* its setEnabled(False) on show_progress_btn overwrites the state the
\* branches of update_ui_for_direction gave the button just before
update_ui_for_direction ==
    /\ pdf_to_word_rb' = ~pdf_to_word_rb
    /\ format_combo' = IF pdf_to_word_rb' THEN "docx" ELSE "pdf"
    /\ ClearAll
    /\ op' = Op("update_ui_for_direction", "")
    /\ UNCHANGED <<output_folder, dirExists, perpage_rb, progressMaximum,
                   total_pages, current_page_progress, queue, win32com>>

\* the user clicks the other mode radio button (enabled for PDF to Word only)
ToggleMode ==
    /\ pdf_to_word_rb
    /\ perpage_rb' = ~perpage_rb
    /\ op' = Op("ToggleMode", "")
    /\ UNCHANGED <<file_paths, file_list_widget, output_folder, dirExists,
                   pdf_to_word_rb, format_combo, progressValue,
                   progressMaximum, open_btn, show_progress_btn, status,
                   total_pages, current_page_progress, workers, queue,
                   win32com>>

\* the user picks the other entry of the format combo box
SelectFormat ==
    /\ pdf_to_word_rb
    /\ format_combo' = IF format_combo = "docx" THEN "doc" ELSE "docx"
    /\ op' = Op("SelectFormat", "")
    /\ UNCHANGED <<file_paths, file_list_widget, output_folder, dirExists,
                   pdf_to_word_rb, perpage_rb, progressValue,
                   progressMaximum, open_btn, show_progress_btn, status,
                   total_pages, current_page_progress, workers, queue,
                   win32com>>

(***************************************************************************)
(* Output folder.                                                          *)
(***************************************************************************)
\* getExistingDirectory returns an existing folder
select_output_folder ==
    /\ dirExists
    /\ output_folder' = OutDir
    /\ op' = Op("select_output_folder", "")
    /\ UNCHANGED <<file_paths, file_list_widget, dirExists, pdf_to_word_rb,
                   perpage_rb, format_combo, progressValue, progressMaximum,
                   open_btn, show_progress_btn, status, total_pages,
                   current_page_progress, workers, queue, win32com>>

clear_output_folder ==
    \E reply \in {"Yes", "No"} :
        /\ op' = Op("clear_output_folder",
                    IF output_folder = "" THEN "" ELSE reply)
        /\ IF output_folder = "" \/ reply = "No"
           THEN UNCHANGED program
           ELSE /\ output_folder' = ""
                /\ UNCHANGED <<file_paths, file_list_widget, dirExists,
                               pdf_to_word_rb, perpage_rb, format_combo,
                               progressValue, progressMaximum, open_btn,
                               show_progress_btn, status, total_pages,
                               current_page_progress, workers, queue,
                               win32com>>

\* the folder is deleted or created outside the program
FolderChangesOnDisk ==
    /\ dirExists' = ~dirExists
    /\ op' = Op("FolderChangesOnDisk", "")
    /\ UNCHANGED <<window, workers, queue, win32com>>

\* os.path.isdir(self.output_folder)
isdir(folder) == folder = OutDir /\ dirExists

(***************************************************************************)
(* ConvertWorker                                                           *)
(***************************************************************************)
\* the page-counting loop: files PdfReader cannot read are skipped
RECURSIVE SumPages(_)
SumPages(files) ==
    IF files = <<>> THEN 0
    ELSE (IF PageCount(Head(files)) >= 0 THEN PageCount(Head(files)) ELSE 0)
         + SumPages(Tail(files))

\* ConvertWorker.__init__: total_steps
TotalSteps(files, direction, mode) ==
    IF direction = "pdf_to_word" /\ mode = "per_page"
    THEN SumPages(files) ELSE Len(files)

\* ConvertWorker.__init__.  self.files is the window's file_paths list
\* itself, not a copy: the worker reads file_paths whenever it iterates.
\* it is the position of the list iterator of the for loop, current_step
\* and results are the locals of run.  startFiles, modified, attempts and
\* finished are history.
NewWorker(files, folder, mode, fmt, direction) ==
    [output_folder |-> folder, mode |-> mode, fmt |-> fmt,
     direction |-> direction,
     total_steps |-> TotalSteps(files, direction, mode),
     it |-> 0, current_step |-> 0, results |-> <<>>, running |-> TRUE,
     wordOpen |-> 0,
     startFiles |-> files, modified |-> FALSE, attempts |-> <<>>,
     finished |-> FALSE]

\* a worker whose result has been handled: none of its fields is read again
Retired ==
    [output_folder |-> "", mode |-> "normal", fmt |-> "", direction |-> "",
     total_steps |-> 0, it |-> 0, current_step |-> 0, results |-> <<>>,
     running |-> FALSE, wordOpen |-> 0, startFiles |-> <<>>,
     modified |-> FALSE, attempts |-> <<>>, finished |-> TRUE]

\* name + "." + fmt for PDF to Word, name + ".pdf" for Word to PDF
OutName(path, direction, fmt) ==
    LET name == splitext(basename(path))[1]
    IN  IF direction = "pdf_to_word" THEN name \o <<".">> \o FmtChars(fmt)
        ELSE name \o DotPdf

Progress(id, v) == [w |-> id, sig |-> "progress", val |-> v, results |-> <<>>]
PageProgress(id, v) ==
    [w |-> id, sig |-> "page_progress", val |-> v, results |-> <<>>]
Result(id, rs) == [w |-> id, sig |-> "result", val |-> 0, results |-> rs]

\* the two emits of the page loop, for pages 1..n after step cs
RECURSIVE PageEmits(_, _, _)
PageEmits(id, cs, n) ==
    IF n = 0 THEN <<>>
    ELSE PageEmits(id, cs, n - 1)
         \o <<Progress(id, cs + n), PageProgress(id, cs + n)>>

WordStages == {"dispatch", "open", "save"}

\* where one loop iteration can raise, for the given worker and path:
\*   reader   PdfReader(path) raises               (per-page mode)
\*   convert  Converter(path) or convert() raises, in per-page mode when
\*            converting page number page
\*   merge    Document(), os.remove or merged.save raises
\*   dispatch, open, save   the Word automation calls raise
\*   nowin32  win32com is missing (Word to PDF), nothing is raised
\*   ok       nothing raises
\* A path that is not a regular file cannot be converted or saved.
Outcomes(wk, path, hasWin32) ==
    LET readable == path \in RegularFiles
        word == IF readable THEN WordStages ELSE {"dispatch", "open"}
    IN  IF wk.direction = "pdf_to_word"
        THEN IF wk.mode = "normal"
             THEN {[stage |-> "convert", page |-> 0]}
                  \cup (IF readable
                        THEN {[stage |-> "ok", page |-> 0]}
                             \cup (IF wk.fmt = "doc" /\ hasWin32
                                   THEN {[stage |-> st, page |-> 0] :
                                            st \in WordStages}
                                   ELSE {})
                        ELSE {})
             ELSE IF PageCount(path) < 0
                  THEN {[stage |-> "reader", page |-> 0]}
                  ELSE {[stage |-> "convert", page |-> p] :
                           p \in 0..(IF PageCount(path) = 0 THEN 0
                                     ELSE PageCount(path) - 1)}
                       \cup {[stage |-> "merge", page |-> 0],
                             [stage |-> "ok", page |-> 0]}
                       \cup (IF wk.fmt = "doc" /\ hasWin32
                             THEN {[stage |-> st, page |-> 0] :
                                      st \in WordStages}
                             ELSE {})
        ELSE IF ~hasWin32 THEN {[stage |-> "nowin32", page |-> 0]}
             ELSE {[stage |-> st, page |-> 0] : st \in word}
                  \cup (IF readable THEN {[stage |-> "ok", page |-> 0]}
                        ELSE {})

\* an exception was raised inside the iteration
Raised(oc) == oc.stage \notin {"ok", "nowin32"}

Succeeds_IgnoringWord(oc) == oc.stage \in {"ok"} \cup WordStages

\* the iteration reaches results.append of the success string
Succeeds(oc) == oc.stage = "ok"

AppendResult_DropFailure(results, out_name, ok) ==
    IF ok THEN Append(results, [out_name |-> out_name, ok |-> ok])
    ELSE results

\* results.append of the success or of the failure string
AppendResult(results, out_name, ok) ==
    Append(results, [out_name |-> out_name, ok |-> ok])

\* the progress signals of one loop iteration, in emission order
FileEmits(wk, id, path, oc) ==
    LET cs == wk.current_step
    IN  IF wk.direction = "pdf_to_word"
        THEN IF wk.mode = "normal"
             THEN IF oc.stage = "convert"
                  \* except branch: current_step += 1, emit
                  THEN <<Progress(id, cs + 1)>>
                  ELSE IF oc.stage \in WordStages
                  \* emit after convert(), and again in the except branch
                  THEN <<Progress(id, cs + 1), Progress(id, cs + 2)>>
                  ELSE <<Progress(id, cs + 1)>>
             ELSE IF oc.stage = "reader" THEN <<>>
                  ELSE IF oc.stage = "convert"
                  THEN PageEmits(id, cs, oc.page)
                  ELSE PageEmits(id, cs, PageCount(path))
        \* Word to PDF: the not-win32com branch and the finally clause
        ELSE <<Progress(id, cs + 1)>>

\* current_step after the iteration
StepAfter(wk, path, oc) ==
    LET cs == wk.current_step
    IN  IF wk.direction = "pdf_to_word"
        THEN IF wk.mode = "normal"
             THEN IF oc.stage \in WordStages THEN cs + 2 ELSE cs + 1
             ELSE IF oc.stage = "reader" THEN cs
                  ELSE IF oc.stage = "convert" THEN cs + oc.page
                  ELSE cs + PageCount(path)
        ELSE cs + 1

\* Word instances the iteration started and did not quit: in PDF to Word
\* word.Quit() is skipped when Open or SaveAs raises; in Word to PDF the
\* finally clause quits
WordLeftOpen(wk, oc) ==
    IF wk.direction = "pdf_to_word" /\ oc.stage \in {"open", "save"}
    THEN 1 ELSE 0

\* one iteration of the for loop of run, for the path the iterator yields
RunFile(wk, path, oc) ==
    [wk EXCEPT
        !.it = wk.it + 1,
        !.current_step = StepAfter(wk, path, oc),
        !.results = AppendResult(wk.results,
                        OutName(path, wk.direction, wk.fmt), Succeeds(oc)),
        !.wordOpen = wk.wordOpen + WordLeftOpen(wk, oc),
        !.attempts = Append(wk.attempts,
                            [path |-> path, raised |-> Raised(oc)])]

FinalEmits_ResultFirst(wk, id) ==
    <<Result(id, wk.results), Progress(id, wk.total_steps)>>

\* the two emits after the loop
FinalEmits(wk, id) == <<Progress(id, wk.total_steps), Result(id, wk.results)>>

\* The worker thread advances: the list iterator over self.files (which is
\* file_paths) either yields the next path, or is exhausted and run ends.
WorkerStep(id) ==
    /\ id \in 1..Len(workers)
    /\ workers[id].running
    /\ LET wk == workers[id]
       IN  IF wk.it < Len(file_paths)
           THEN \E oc \in Outcomes(wk, file_paths[wk.it + 1], win32com) :
                   /\ workers' = [workers EXCEPT ![id] =
                          RunFile(wk, file_paths[wk.it + 1], oc)]
                   /\ queue' = queue
                          \o FileEmits(wk, id, file_paths[wk.it + 1], oc)
           ELSE /\ workers' = [workers EXCEPT ![id].running = FALSE]
                /\ queue' = queue \o FinalEmits(wk, id)
    /\ op' = Op("run", "")
    /\ UNCHANGED <<window, dirExists, win32com>>

(***************************************************************************)
(* convert_files and the slots connected to the worker's signals.          *)
(***************************************************************************)
CanConvert_NoFolderCheck(paths, folder) == paths # <<>>

\* the two checks at the top of convert_files
CanConvert(paths, folder) == paths # <<>> /\ isdir(folder)

\* where the new thread is kept: a thread whose result has been handled is
\* gone, any other thread goes on running beside the new one
FreeSlot ==
    LET gone == {i \in 1..Len(workers) : workers[i].finished}
    IN  IF gone = {} THEN Len(workers) + 1
        ELSE CHOOSE i \in gone : \A j \in gone : i <= j

PutWorker(ws, slot, wk) ==
    IF slot = Len(ws) + 1 THEN Append(ws, wk) ELSE [ws EXCEPT ![slot] = wk]

convert_files ==
    /\ op' = Op("convert_files", "")
    /\ IF ~CanConvert(file_paths, output_folder)
       THEN UNCHANGED program
       ELSE LET direction == IF pdf_to_word_rb THEN "pdf_to_word"
                             ELSE "word_to_pdf"
                mode == IF direction = "pdf_to_word" /\ perpage_rb
                        THEN "per_page" ELSE "normal"
                fmt == IF direction = "pdf_to_word" THEN format_combo
                       ELSE "pdf"
                maximum == IF mode = "per_page" THEN SumPages(file_paths)
                           ELSE Len(file_paths)
            IN  /\ FreeSlot <= MaxThreads
                /\ total_pages' = IF mode = "per_page"
                                  THEN SumPages(file_paths) ELSE 0
                /\ progressMaximum' = MaximumOf(maximum)
                /\ show_progress_btn' = (mode = "per_page")
                /\ progressValue' =
                       setValue(ValueAfterSetMaximum(progressValue, maximum),
                                MaximumOf(maximum), 0)
                /\ open_btn' = FALSE
                /\ status' = [kind |-> "converting", n |-> 0]
                /\ current_page_progress' = 0
                /\ workers' = PutWorker(workers, FreeSlot,
                                  NewWorker(file_paths, output_folder, mode,
                                            fmt, direction))
                /\ UNCHANGED <<file_paths, file_list_widget, output_folder,
                               dirExists, pdf_to_word_rb, perpage_rb,
                               format_combo, queue, win32com>>

\* the signal of worker wk that is connected to self.progress.setValue
BarSignal(wk) ==
    IF wk.direction = "pdf_to_word" /\ wk.mode = "per_page"
    THEN "page_progress" ELSE "progress"

FinishedValue_Keep(value, maximum) == value

\* convert_finished: self.progress.setValue(self.progress.maximum())
FinishedValue(value, maximum) == setValue(value, maximum, maximum)

\* progress.setValue (when connected) and update_current_page_progress
OnProgress(e) ==
    /\ progressValue' = IF e.sig = BarSignal(workers[e.w])
                        THEN setValue(progressValue, progressMaximum, e.val)
                        ELSE progressValue
    /\ current_page_progress' = e.val
    /\ op' = Op(e.sig, "")
    /\ UNCHANGED <<status, open_btn, workers>>

convert_finished(e) ==
    /\ status' = [kind |-> "done", n |-> 0]
    /\ open_btn' = TRUE
    /\ progressValue' = FinishedValue(progressValue, progressMaximum)
    /\ workers' = [workers EXCEPT ![e.w] = Retired]
    /\ op' = Op("convert_finished", "")
    /\ UNCHANGED current_page_progress

\* the window's event loop delivers the oldest queued signal to its slots
HandleEvent ==
    /\ queue # <<>>
    /\ LET e == Head(queue)
       IN  IF e.sig = "result" THEN convert_finished(e) ELSE OnProgress(e)
    /\ queue' = Tail(queue)
    /\ UNCHANGED <<file_paths, file_list_widget, output_folder, dirExists,
                   pdf_to_word_rb, perpage_rb, format_combo, progressMaximum,
                   show_progress_btn, total_pages, win32com>>

(***************************************************************************)
(* The window from its construction, with the operations on the file list  *)
(* and on the settings.                                                    *)
(***************************************************************************)
Init ==
    /\ file_paths = <<>>
    /\ file_list_widget = <<>>
    /\ output_folder = ""
    /\ dirExists \in BOOLEAN
    /\ pdf_to_word_rb = TRUE
    /\ perpage_rb = FALSE
    /\ format_combo = "docx"
    /\ progressValue = 0
    /\ progressMaximum = 100
    /\ open_btn = FALSE
    /\ show_progress_btn = FALSE
    /\ status = FileCountStatus(<<>>)
    /\ total_pages = 0
    /\ current_page_progress = 0
    /\ workers = <<>>
    /\ queue = <<>>
    /\ win32com \in BOOLEAN
    /\ op = Op("__init__", "")

NextList ==
    \/ select_files(AllPaths)
    \/ dropEvent(AllPaths)
    \/ remove_selected_files
    \/ clear_all_files
    \/ update_ui_for_direction
    \/ ToggleMode
    \/ SelectFormat
    \/ select_output_folder
    \/ clear_output_folder
    \/ FolderChangesOnDisk

SpecList == Init /\ [][NextList]_vars

(***************************************************************************)
(* Conversions.  The window starts in a state the user reaches with the    *)
(* operations above: settings chosen, some files listed, an output folder  *)
(* picked or not.  The user starts a conversion when the result of the     *)
(* previous one has been shown, and edits the list while it runs.          *)
(***************************************************************************)
\* the paths the user works with during conversions
ReadyPaths == AllPaths

Ready(paths) ==
    /\ pdf_to_word_rb \in BOOLEAN
    /\ perpage_rb \in BOOLEAN
    /\ format_combo \in (IF pdf_to_word_rb THEN {"docx", "doc"} ELSE {"pdf"})
    /\ win32com \in BOOLEAN
    /\ \E folder \in {<<OutDir, TRUE>>, <<OutDir, FALSE>>, <<"", TRUE>>} :
          /\ output_folder = folder[1]
          /\ dirExists = folder[2]
    /\ \E files \in {<<>>} \cup
                    Batches({f \in paths : DropAccepts(pdf_to_word_rb, f)}) :
          LET r == AddFiles(files, <<>>, <<>>)
          IN  /\ file_paths = r.paths
              /\ file_list_widget = r.items
              /\ status = FileCountStatus(r.paths)
    /\ progressValue = 0
    /\ progressMaximum = 100
    /\ open_btn = FALSE
    /\ show_progress_btn = FALSE
    /\ total_pages = 0
    /\ current_page_progress = 0
    /\ workers = <<>>
    /\ queue = <<>>
    /\ op = Op("setup", "")

InitRun == Ready(ReadyPaths)

\* no conversion is under way: every thread's result has been handled
NoneActive == \A i \in 1..Len(workers) : workers[i].finished

NextRun ==
    \/ NoneActive /\ convert_files
    \/ \E id \in 1..MaxThreads : WorkerStep(id)
    \/ HandleEvent
    \/ remove_selected_files
    \/ clear_all_files

SpecRun == InitRun /\ [][NextRun]_vars

(***************************************************************************)
(* Conversions started one after the other without waiting: the convert    *)
(* button stays enabled while a worker runs.                               *)
(***************************************************************************)
RepeatPaths == {PdfA, DocB}

InitRepeat == Ready(RepeatPaths)

NextRepeat ==
    \/ convert_files
    \/ \E id \in 1..MaxThreads : WorkerStep(id)
    \/ HandleEvent

SpecRepeat == InitRepeat /\ [][NextRepeat]_vars

\* the scheduler runs every thread that can run, and the event loop
\* delivers every queued signal
FairPaths == {PdfA, DirA, DocB}

InitFair == Ready(FairPaths)

FairRun ==
    /\ InitFair
    /\ [][NextRun]_vars
    /\ WF_vars(\E id \in 1..MaxThreads : WorkerStep(id))
    /\ WF_vars(HandleEvent)

(***************************************************************************)
(* Conversions mixed with every edit of the list: drops, removals, clears  *)
(* and changes of direction, before, during and after a conversion.        *)
(***************************************************************************)
EditPaths == {PdfA, DocB}

InitEdit == Ready(EditPaths)

NextEdit ==
    \/ NoneActive /\ convert_files
    \/ \E id \in 1..MaxThreads : WorkerStep(id)
    \/ HandleEvent
    \/ dropEvent(EditPaths)
    \/ remove_selected_files
    \/ clear_all_files
    \/ clear_output_folder
    \/ update_ui_for_direction

SpecEdit == InitEdit /\ [][NextEdit]_vars

(***************************************************************************)
(* Properties.                                                             *)
(***************************************************************************)
\* thread i exists and its result has not been handled yet
Live(i) == i \in 1..Len(workers) /\ ~workers[i].finished

\* run of thread i has ended
Ended(i) == Live(i) /\ ~workers[i].running

\* the paths the loop of a thread has taken from the list so far
AttemptedPaths(wk) == [k \in 1..Len(wk.attempts) |-> wk.attempts[k].path]

ResultEvents == {k \in 1..Len(queue) : queue[k].sig = "result"}

NoDuplicates(seq) ==
    \A i, j \in 1..Len(seq) : i # j => seq[i] # seq[j]

\* C1: the list a worker emits on result has one entry per file of the list
\* it was started with, when that list was not changed during the run
C1_OneResultPerFile ==
    \A k \in ResultEvents :
        ~workers[queue[k].w].modified =>
            Len(queue[k].results) = Len(workers[queue[k].w].startFiles)

\* a result with a success and a failure entry is waiting for the window
C1_Witness ==
    \E k \in ResultEvents :
        /\ ~workers[queue[k].w].modified
        /\ Len(queue[k].results) = 2
        /\ queue[k].results[1].ok
        /\ ~queue[k].results[2].ok

\* C2: an exception in the iteration of a file is recorded as the failure
\* entry of that file, the loop goes on with the files after it, and the
\* result is emitted when the loop ends
C2_FailureIsRecordedAndLoopGoesOn ==
    \A i \in 1..Len(workers) :
        Live(i) =>
            LET wk == workers[i]
            IN  /\ Len(wk.results) = Len(wk.attempts)
                /\ \A k \in 1..Len(wk.attempts) :
                      wk.attempts[k].raised =>
                          wk.results[k] =
                              [out_name |-> OutName(wk.attempts[k].path,
                                                    wk.direction, wk.fmt),
                               ok |-> FALSE]
                /\ wk.running /\ ~wk.modified =>
                      AttemptedPaths(wk) = SubSeq(wk.startFiles, 1, wk.it)
                /\ ~wk.running =>
                      /\ \E k \in ResultEvents :
                            queue[k] = Result(i, wk.results)
                      /\ ~wk.modified => AttemptedPaths(wk) = wk.startFiles

\* the first of two files raised, the second was converted, the result is out
C2_Witness ==
    \E i \in 1..Len(workers) :
        /\ Ended(i)
        /\ ~workers[i].modified
        /\ Len(workers[i].attempts) = 2
        /\ workers[i].attempts[1].raised
        /\ workers[i].results[2].ok

\* C3: right after convert_finished the bar is full, and every conversion
\* that was started gets there
C3_BarReachesMaximum ==
    /\ [](op.name = "convert_finished" => progressValue = progressMaximum)
    /\ \A i \in 1..MaxThreads :
          Live(i) ~> (/\ op.name = "convert_finished"
                      /\ progressValue = progressMaximum)

\* a per-page conversion with pages has just been reported
C3_Witness ==
    /\ op.name = "convert_finished"
    /\ total_pages > 0
    /\ progressValue = progressMaximum

\* C4: while a worker runs, the list it iterates over is the list it was
\* started with, and it converts exactly those files
C4_WorkerListIsNotShared ==
    \A i \in 1..Len(workers) :
        Live(i) =>
            /\ workers[i].running => file_paths = workers[i].startFiles
            /\ ~workers[i].running =>
                  AttemptedPaths(workers[i]) = workers[i].startFiles

\* C5: at most one worker thread is running
C5_AtMostOneWorkerRuns ==
    Cardinality({i \in 1..Len(workers) : workers[i].running}) <= 1

\* C6: convert_files creates a worker exactly when the list is not empty and
\* the output folder is an existing directory, and changes nothing otherwise
C6_ConvertChecks ==
    [][op'.name = "convert_files" =>
          IF file_paths # <<>> /\ isdir(output_folder)
          THEN \E i \in 1..Len(workers') :
                  /\ workers'[i] = NewWorker(file_paths, output_folder,
                                       workers'[i].mode, workers'[i].fmt,
                                       workers'[i].direction)
                  /\ i \in 1..Len(workers) => workers[i].finished
          ELSE UNCHANGED program]_vars

\* convert was pressed with files listed and no valid folder: nothing started
C6_Witness ==
    /\ op.name = "convert_files"
    /\ file_paths # <<>>
    /\ ~isdir(output_folder)
    /\ workers = <<>>

\* C7: every listed path is an existing regular file
C7_ListedPathsAreFiles ==
    \A k \in 1..Len(file_paths) : file_paths[k] \in RegularFiles

\* C8: no path is listed twice, and adding a listed path again changes
\* neither the list nor the widget
C8_NoDuplicatePaths ==
    /\ NoDuplicates(file_paths)
    /\ \A f \in Range(file_paths) :
          AddFiles(<<f>>, file_paths, file_list_widget) =
              [paths |-> file_paths, items |-> file_list_widget]

\* the dialog returned only files that were listed already, with others
\* listed beside them
C8_Witness ==
    /\ op.name = "select_files"
    /\ op.added = 0
    /\ Len(file_paths) = 2

\* C9: the display texts of the widget items are pairwise distinct
C9_DisplayNamesDistinct ==
    NoDuplicates([k \in 1..Len(file_list_widget) |->
                     file_list_widget[k].text])

\* a(1).pdf is listed under its own name, and a third a.pdf became a(2).pdf
C9_Witness ==
    /\ Len(file_list_widget) = 3
    /\ \E k \in 1..3 :
          /\ file_list_widget[k].data = PdfA1
          /\ file_list_widget[k].text = basename(PdfA1)
    /\ \E k \in 1..3 :
          file_list_widget[k].text
              = <<"a", "(", "2", ")", ".", "p", "d", "f">>

\* C10: outside per-page mode the step counter equals the number of files
\* processed, and no progress value exceeds total_steps
C10_OneStepPerFile ==
    \A i \in 1..Len(workers) :
        Live(i) /\ BarSignal(workers[i]) = "progress" /\ ~workers[i].modified
        => /\ workers[i].current_step = workers[i].it
           /\ \A k \in 1..Len(queue) :
                 queue[k].w = i /\ queue[k].sig = "progress"
                 => queue[k].val <= workers[i].total_steps

\* positions of the queued signals of thread i
EventsOf(i) == {k \in 1..Len(queue) : queue[k].w = i}

\* C11: a thread emits result once, when its run ends, after all its
\* progress signals: a running thread has no result queued, a thread that
\* has ended has exactly one, nothing of that thread follows it, and the
\* signal of that thread queued before it is the final progress emit
C11_ResultIsEmittedOnceAndLast ==
    \A i \in 1..Len(workers) :
        Live(i) =>
            LET res == EventsOf(i) \cap ResultEvents
            IN  /\ workers[i].running => res = {}
                /\ ~workers[i].running =>
                      /\ Cardinality(res) = 1
                      /\ \A k \in res :
                            /\ queue[k].results = workers[i].results
                            /\ \A j \in EventsOf(i) : j <= k
                            /\ \A j \in EventsOf(i) :
                                  (j < k /\ \A m \in EventsOf(i) :
                                               m < k => m <= j)
                                  => queue[j] =
                                        Progress(i, workers[i].total_steps)

\* two threads have ended, and the result of one of them waits in the queue
\* behind its own progress signals and between signals of the other thread
C11_Witness ==
    \E k \in ResultEvents :
        /\ \E j \in EventsOf(queue[k].w) : j < k
        /\ \E j \in 1..Len(queue) : j < k /\ queue[j].w # queue[k].w
        /\ \E j \in 1..Len(queue) : j > k /\ queue[j].w # queue[k].w

\* C12: the open-folder button is enabled only when some conversion has
\* been reported and no started conversion is still waiting to be reported
C12_OpenButtonOnlyAfterConversion ==
    open_btn =>
        /\ \E i \in 1..Len(workers) : workers[i].finished
        /\ \A i \in 1..Len(workers) : ~Live(i)

\* C13: a change of direction empties file_paths and the list widget,
\* sets the progress value to 0 and disables the open-folder button, asks
\* nothing and leaves the output folder alone; so every listed path
\* passes the suffix test of the current direction, the only direction
\* under which it can have been added
C13_DirectionChangeClearsList ==
    /\ [][op'.name = "update_ui_for_direction" =>
            /\ pdf_to_word_rb' # pdf_to_word_rb
            /\ file_paths' = <<>>
            /\ file_list_widget' = <<>>
            /\ progressValue' = 0
            /\ ~open_btn'
            /\ op'.reply = ""
            /\ output_folder' = output_folder]_vars
    /\ [](\A k \in 1..Len(file_paths) :
             DropAccepts(pdf_to_word_rb, file_paths[k]))

\* a change of direction right after a conversion was reported, and a path
\* dropped under Word-to-PDF while a thread started under PDF-to-Word runs
C13_Witness ==
    \/ /\ op.name = "update_ui_for_direction"
       /\ \E i \in 1..Len(workers) : workers[i].finished
       /\ progressMaximum # 100
       /\ output_folder = OutDir
    \/ /\ op.name = "dropEvent"
       /\ op.added > 0
       /\ ~pdf_to_word_rb
       /\ \E i \in 1..Len(workers) :
             Live(i) /\ workers[i].direction = "pdf_to_word"

\* C14: right after update_ui_for_direction, the current-file progress
\* button is enabled exactly when the direction is PDF-to-Word and the
\* per-page mode is checked
C14_ProgressButtonFollowsMode ==
    op.name = "update_ui_for_direction" =>
        show_progress_btn = (pdf_to_word_rb /\ perpage_rb)

\* C15: no iteration of run ends with the Word instance it started still
\* open, whether opening and saving the document succeed or raise
C15_WordIsQuitAfterEveryFile ==
    \A i \in 1..Len(workers) : workers[i].wordOpen = 0

\* seq without the elements at the positions in rows, the others in order
Without(seq, rows) ==
    LET keep == {k \in 1..Len(seq) : k \notin rows}
        at(j) == CHOOSE k \in keep : Cardinality({m \in keep : m <= k}) = j
    IN  [j \in 1..Cardinality(keep) |-> seq[at(j)]]

\* the handlers that ask for a confirmation
Confirming ==
    {"remove_selected_files", "clear_all_files", "clear_output_folder"}

\* C16: answering No in remove_selected_files, clear_all_files or
\* clear_output_folder changes nothing (list, widget, output folder,
\* progress value, buttons); answering Yes in remove_selected_files takes
\* exactly the selected rows out of file_paths and out of the widget and
\* keeps the other entries in their order
C16_NoChangesNothingYesRemovesSelection ==
    [][/\ (op'.name \in Confirming /\ op'.reply = "No") =>
              UNCHANGED <<file_paths, file_list_widget, output_folder,
                          progressValue, progressMaximum, open_btn,
                          show_progress_btn, status>>
       /\ (op'.name = "remove_selected_files" /\ op'.reply = "Yes") =>
              LET rows == op'.rows
              IN  /\ rows # {}
                  /\ rows \subseteq 1..Len(file_list_widget)
                  /\ file_paths' = Without(file_paths, rows)
                  /\ file_list_widget' = Without(file_list_widget, rows)
                  /\ UNCHANGED <<output_folder, progressValue, open_btn,
                                 show_progress_btn>>]_vars

\* the middle one of three entries was selected and removed: the first
\* and the third are left
C16_Witness ==
    /\ op.name = "remove_selected_files"
    /\ op.reply = "Yes"
    /\ op.rows = {2}
    /\ Len(file_paths) = 2
    /\ Len(file_list_widget) = 2

====
